---- MODULE Spec2Model ----
(***************************************************************************)
(* Model of mcp-construe: the frontmatter extractor, the criteria matcher, *)
(* the vault scanner and the aggregator of obsidian_utils.py, and the      *)
(* cached configuration and entry surfaces of mcp-construe.py.             *)
(***************************************************************************)
EXTENDS Integers, Sequences, FiniteSets, TLC

VARIABLES
    text, loaded, exOut,                \* extract_frontmatter: content, what
                                        \* yaml.safe_load gives, and the result
                                        \* (<<>> until it has returned)
    mFm, mProps, mTags, mAll, mOut,     \* matches_criteria: arguments and result
    cFiles, cOut,                       \* concatenate_files: argument and result
    vault, sIn, sOut,                   \* find_matching_files: the files under the
                                        \* root, the call's inputs, and its outcome
    _config,                            \* mcp-construe.py: the cached configuration
    configFile,                         \* what the file at _config_path holds
    reads, calls,                       \* loads from the file, host calls so far
    last                                \* the latest operation and its outcome

extractVars == <<text, loaded, exOut>>

matchVars == <<mFm, mProps, mTags, mAll, mOut>>

concatVars == <<cFiles, cOut>>

scanVars == <<vault, sIn, sOut>>

entryVars == <<_config, configFile, reads, calls, last>>

vars == <<text, loaded, exOut, mFm, mProps, mTags, mAll, mOut, cFiles, cOut,
          vault, sIn, sOut, _config, configFile, reads, calls, last>>

(***************************************************************************)
(* Python values that occur in frontmatter and in filters.  Every value is *)
(* a record of the same shape, so that Python's == between values of       *)
(* different types is plain record equality (and is false).                *)
(***************************************************************************)
None == [kind |-> "none", s |-> "", l |-> <<>>]

Str(s) == [kind |-> "str", s |-> s, l |-> <<>>]

Lst(l) == [kind |-> "list", s |-> "", l |-> l]

Num(s) == [kind |-> "int", s |-> s, l |-> <<>>]

EmptyDict == [k \in {} |-> None]

\* A parsed frontmatter: a dict, or (the header was a YAML list or scalar)
\* a value that is not a dict.
Dict(m) == [kind |-> "dict", map |-> m]

NonDict(k) == [kind |-> k, map |-> EmptyDict]

\* dict.get(key, default)
Get(d, key, default) == IF key \in DOMAIN d THEN d[key] ELSE default

\* x in file_tags, for a Python list of strings
In(x, list) == \E i \in 1..Len(list) : list[i] = x

(***************************************************************************)
(* Texts are sequences of characters.  re.match(pattern, content,          *)
(* re.DOTALL) with pattern ^---\s*\n(.*?)\n---\s*\n : a match is fixed by  *)
(* the last position a of the first \s*, the last position b of the group  *)
(* and the last position c of the second \s*.  The backtracking matcher    *)
(* tries the longest first \s*, then the shortest group, then the longest  *)
(* second \s*, and returns the first combination that succeeds.            *)
(***************************************************************************)
IsSpace(ch) == ch \in {" ", "\n"}

AllSpace(t, from, to) == \A i \in from..to : IsSpace(t[i])

Hyphens(t, p) == p + 2 <= Len(t) /\ t[p] = "-" /\ t[p + 1] = "-" /\ t[p + 2] = "-"

NewlineAt(t, p) == p <= Len(t) /\ t[p] = "\n"

pattern(t) ==
    IF ~Hyphens(t, 1) THEN {}
    ELSE UNION {UNION {{<<a, b, c>> : c \in {k \in (b + 4)..(Len(t) - 1) :
                                    AllSpace(t, b + 5, k) /\ NewlineAt(t, k + 1)}} :
                    b \in {j \in (a + 1)..(Len(t) - 5) :
                                    NewlineAt(t, j + 1) /\ Hyphens(t, j + 2)}} :
             a \in {i \in 3..(Len(t) - 1) : AllSpace(t, 4, i) /\ NewlineAt(t, i + 1)}}

Max(S) == CHOOSE x \in S : \A y \in S : y <= x

Min(S) == CHOOSE x \in S : \A y \in S : x <= y

\* The combination the matcher finds first among ms, as a match object:
\* group(1) is content[a+2 .. b], end() is c + 1.
first_match(ms) ==
    IF ms = {} THEN [found |-> FALSE, gstart |-> 0, gend |-> 0, end |-> 0]
    ELSE LET a == Max({m[1] : m \in ms})
             b == Min({m[2] : m \in {x \in ms : x[1] = a}})
             c == Max({m[3] : m \in {x \in ms : x[1] = a /\ x[2] = b}})
         IN  [found |-> TRUE, gstart |-> a + 2, gend |-> b, end |-> c + 1]

re_match(t) == first_match(pattern(t))

(***************************************************************************)
(* yaml.safe_load(frontmatter_text) is a library call: its outcome is an   *)
(* input, a dict, None, a falsy non-dict value ([] or 0), a non-empty list *)
(* or scalar, or a raised yaml.YAMLError.  Blank text loads as None.  The  *)
(* characters w, u and l abbreviate the header lines "context: work",      *)
(* "context: personal" with "tags: [urgent]", and a YAML list item; x is   *)
(* any other text.                                                         *)
(***************************************************************************)
YAMLError == [kind |-> "YAMLError", map |-> EmptyDict]

LoadedDicts == {EmptyDict, [context |-> Str("work")]}

safe_load(frontmatter_text) ==
    IF AllSpace(frontmatter_text, 1, Len(frontmatter_text))
    THEN {NonDict("none")}
    ELSE IF frontmatter_text = <<"w">>
    THEN {Dict([context |-> Str("work")])}
    ELSE IF frontmatter_text = <<"u">>
    THEN {Dict([context |-> Str("personal"), tags |-> Lst(<<"urgent">>)])}
    ELSE IF frontmatter_text = <<"l">>
    THEN {NonDict("list")}
    ELSE {Dict(m) : m \in LoadedDicts}
            \cup {NonDict("none"), NonDict("falsy"), NonDict("list"), NonDict("str"), YAMLError}

\* yaml.safe_load(frontmatter_text) or {}
or_empty_dict(value) == IF value.kind \in {"none", "falsy"} THEN Dict(EmptyDict) ELSE value

(***************************************************************************)
(* extract_frontmatter (obsidian_utils.py 42-66); yaml is the outcome of   *)
(* yaml.safe_load on the header text.                                      *)
(***************************************************************************)
group1(content, match) ==
    IF match.found THEN SubSeq(content, match.gstart, match.gend) ELSE <<>>

frontmatter_text(content) == group1(content, re_match(content))

\* Lines 56-66, once the pattern has been matched against the content.
extracted(content, yaml, match) ==
    IF ~match.found
    THEN [frontmatter |-> Dict(EmptyDict), remaining_content |-> content]
    ELSE IF yaml.kind = "YAMLError"
    THEN [frontmatter |-> Dict(EmptyDict), remaining_content |-> content]
    ELSE [frontmatter |-> or_empty_dict(yaml),
          remaining_content |-> SubSeq(content, match.end + 1, Len(content))]

extract_frontmatter(content, yaml) == extracted(content, yaml, re_match(content))

(***************************************************************************)
(* matches_criteria (obsidian_utils.py 69-104).  The result is "True",     *)
(* "False", or "AttributeError" when frontmatter.get does not exist.       *)
(***************************************************************************)
file_tags_lists_only(frontmatter) ==
    LET raw == Get(frontmatter.map, "tags", Lst(<<>>))
    IN  IF raw.kind = "list" THEN raw.l ELSE <<>>

file_tags(frontmatter) ==
    LET raw == Get(frontmatter.map, "tags", Lst(<<>>))
    IN  IF raw.kind = "str" THEN <<raw.s>>
        ELSE IF raw.kind # "list" THEN <<>>
        ELSE raw.l

tags_match_modes_swapped(ftags, tags, match_all_tags) ==
    IF match_all_tags
    THEN \E i \in 1..Len(tags) : In(tags[i], ftags)
    ELSE \A i \in 1..Len(tags) : In(tags[i], ftags)

tags_match(ftags, tags, match_all_tags) ==
    IF match_all_tags
    THEN \A i \in 1..Len(tags) : In(tags[i], ftags)
    ELSE \E i \in 1..Len(tags) : In(tags[i], ftags)

matches_criteria(frontmatter, properties, tags, match_all_tags) ==
    IF DOMAIN properties # {} /\ frontmatter.kind # "dict"
    THEN "AttributeError"
    ELSE IF \E key \in DOMAIN properties :
                Get(frontmatter.map, key, None) # properties[key]
    THEN "False"
    ELSE IF tags # <<>>
    THEN IF frontmatter.kind # "dict"
         THEN "AttributeError"
         ELSE IF tags_match(file_tags(frontmatter), tags, match_all_tags)
              THEN "True" ELSE "False"
    ELSE "True"

(***************************************************************************)
(* Inputs of the extractor: a text is typed piece by piece, then           *)
(* extract_frontmatter is applied to it.                                   *)
(***************************************************************************)
MaxText == 11

MaxPlain == 5

\* Texts that open with three hyphens are typed up to MaxText characters,
\* all other texts up to MaxPlain characters.
Limit(t) == IF Hyphens(t, 1) THEN MaxText ELSE MaxPlain

Pieces == {<<"-", "-", "-">>, <<"\n">>, <<" ">>, <<"x">>}

ExtractIdle == text = <<>> /\ loaded = NonDict("none") /\ exOut = <<>>

MatchIdle ==
    /\ mFm = Dict(EmptyDict) /\ mProps = EmptyDict /\ mTags = <<>>
    /\ mAll = FALSE /\ mOut = "pending"

ConcatIdle == cFiles = <<>> /\ cOut = <<>>

ScanIdle == vault = <<>> /\ sIn = <<>> /\ sOut = <<>>

\* _config = None; a config file that holds nothing also loads as None.
NoConfig == [kind |-> "none", vault_path |-> "", default_context |-> <<>>]

\* An operation's outcome: kind is "text" (the aggregate output), "listing"
\* (the paths of a dry run), "info" or "error"; out is the returned or
\* printed text, exit the exit code of main.
NoOperation ==
    [op |-> "", kind |-> "", error |-> "", scanned |-> FALSE, root |-> "",
     out |-> <<>>, paths |-> <<>>, count |-> 0, exit |-> 0,
     config |-> NoConfig, read |-> FALSE, stale |-> FALSE]

EntryIdle ==
    /\ _config = NoConfig /\ configFile = NoConfig
    /\ reads = 0 /\ calls = 0 /\ last = NoOperation

ExtractInit == ExtractIdle /\ MatchIdle /\ ConcatIdle /\ ScanIdle /\ EntryIdle

Type ==
    /\ exOut = <<>>
    /\ \E piece \in Pieces :
          /\ Len(text) + Len(piece) <= Limit(text \o piece)
          /\ text' = text \o piece
    /\ UNCHANGED <<loaded, exOut>>
    /\ UNCHANGED <<matchVars, concatVars, scanVars, entryVars>>

Extract ==
    /\ exOut = <<>>
    /\ \E yaml \in safe_load(frontmatter_text(text)) :
          /\ loaded' = yaml
          /\ exOut' = <<extract_frontmatter(text, yaml)>>
    /\ UNCHANGED text
    /\ UNCHANGED <<matchVars, concatVars, scanVars, entryVars>>

SpecExtract == ExtractInit /\ [][Type \/ Extract]_vars

(***************************************************************************)
(* Properties of extract_frontmatter, checked under SpecExtract.           *)
(***************************************************************************)
Extracted == exOut # <<>>

LineStarts(t) == {1} \cup {i + 1 : i \in {j \in 1..Len(t) : t[j] = "\n"}}

\* A line of three hyphens, possibly with trailing blanks, and its newline.
DelimiterLine(t, p) ==
    /\ Hyphens(t, p)
    /\ \E e \in (p + 3)..Len(t) : t[e] = "\n" /\ \A i \in (p + 3)..(e - 1) : t[i] = " "

NoHeader(t) ==
    \/ ~DelimiterLine(t, 1)
    \/ ~\E p \in LineStarts(t) : p > 1 /\ DelimiterLine(t, p)

\* C5: extract_frontmatter always returns a mapping as metadata; without
\* an opening or a closing delimiter line, on a parse failure or on a null
\* or empty parse result the metadata is the empty mapping, and without a
\* header or on a parse failure the second component is the original text.
C5_MetadataIsAlwaysAMapping ==
    Extracted =>
        /\ exOut[1].frontmatter.kind = "dict"
        /\ (\/ NoHeader(text)
            \/ loaded.kind \in {"YAMLError", "none", "falsy"}
            \/ loaded = Dict(EmptyDict)) => exOut[1].frontmatter = Dict(EmptyDict)
        /\ (NoHeader(text) \/ loaded.kind = "YAMLError") =>
              exOut[1].remaining_content = text

\* A line that is exactly three hyphens and a newline.
StrictDelimiterLine(t, p) == Hyphens(t, p) /\ NewlineAt(t, p + 3)

ClosingLines(t) == {p \in LineStarts(t) : p >= 5 /\ StrictDelimiterLine(t, p)}

\* An opening delimiter line, a non-empty header body, a closing delimiter line.
WellFormedHeader(t) ==
    StrictDelimiterLine(t, 1) /\ ClosingLines(t) # {} /\ Min(ClosingLines(t)) > 5

TrimSpace(t) ==
    LET solid == {i \in 1..Len(t) : ~IsSpace(t[i])}
    IN  IF solid = {} THEN <<>> ELSE SubSeq(t, Min(solid), Max(solid))

\* C6: for a text with a well-formed header whose body parses, the metadata
\* is the parse of the header body, the first closing delimiter line ends
\* the header, and the remainder is exactly the text after that line and its
\* newline, leading blank lines of the body included.
C6_RemainderIsTextAfterFirstClosingLine ==
    (Extracted /\ WellFormedHeader(text) /\ loaded.kind # "YAMLError") =>
        LET p == Min(ClosingLines(text))
        IN  /\ exOut[1].remaining_content = SubSeq(text, p + 4, Len(text))
            /\ TrimSpace(frontmatter_text(text)) = TrimSpace(SubSeq(text, 5, p - 1))
            /\ exOut[1].frontmatter =
                  IF loaded.kind \in {"none", "falsy"} THEN Dict(EmptyDict) ELSE loaded

(***************************************************************************)
(* Inputs of the matcher.                                                  *)
(***************************************************************************)
MaxTags == 2

TagNames == {"urgent", "home"}

TagLists == UNION {[1..n -> TagNames] : n \in 0..MaxTags}

FmKeys == {"context", "status", "tags"}

FmValues ==
    [key \in FmKeys |->
        IF key = "context" THEN {Str("work"), Str("personal"), None}
        ELSE IF key = "status" THEN {Str("open")}
        ELSE {Str("urgent"), Lst(<<"urgent">>), Lst(<<"urgent", "home">>),
              Lst(<<>>), Num("7"), None}]

\* The dicts whose keys are among DOMAIN values, each with one of its values.
DictsOver(values) ==
    {m \in UNION {[D -> UNION {values[k] : k \in DOMAIN values}] :
                        D \in SUBSET DOMAIN values} :
        \A k \in DOMAIN m : m[k] \in values[k]}

Frontmatters ==
    {Dict(m) : m \in DictsOver(FmValues)} \cup {NonDict("list"), NonDict("str")}

PropKeys == {"context", "status"}

PropValues ==
    [key \in PropKeys |->
        IF key = "context" THEN {Str("work"), None} ELSE {Str("open"), None}]

PropertyFilters == DictsOver(PropValues)

MatchInit ==
    /\ ExtractIdle /\ ConcatIdle /\ ScanIdle /\ EntryIdle
    /\ mFm \in Frontmatters
    /\ mProps \in PropertyFilters
    /\ mTags \in TagLists
    /\ mAll \in BOOLEAN
    /\ mOut = "pending"

Match ==
    /\ mOut = "pending"
    /\ mOut' = matches_criteria(mFm, mProps, mTags, mAll)
    /\ UNCHANGED <<mFm, mProps, mTags, mAll>>
    /\ UNCHANGED <<extractVars, concatVars, scanVars, entryVars>>

SpecMatch == MatchInit /\ [][Match]_vars

(***************************************************************************)
(* Properties of matches_criteria, checked under SpecMatch.                *)
(***************************************************************************)
Matched == mOut \in {"True", "False"}

\* The property filter as the documentation states it: every key is present
\* in the metadata and stored with the required value.
PropertiesSatisfied(frontmatter, properties) ==
    \A key \in DOMAIN properties :
        key \in DOMAIN frontmatter.map /\ frontmatter.map[key] = properties[key]

\* C2: matches_criteria returns true only if every (key, value) pair of the
\* property filter is present in the metadata with an equal value (an absent
\* key fails for every required value, null included), and an empty
\* property filter constrains nothing.
C2_TrueOnlyIfEveryPropertyPresentAndEqual ==
    /\ mOut = "True" => PropertiesSatisfied(mFm, mProps)
    /\ (Matched /\ DOMAIN mProps = {} /\ mTags = <<>>) => mOut = "True"

\* The normalized tag sequence of the metadata, as a set of strings.
NormalizedTagSet(frontmatter) ==
    IF "tags" \notin DOMAIN frontmatter.map THEN {}
    ELSE LET v == frontmatter.map["tags"]
         IN  CASE v.kind = "str" -> {v.s}
               [] v.kind = "list" -> {v.l[i] : i \in 1..Len(v.l)}
               [] OTHER -> {}

FilterTagSet == {mTags[i] : i \in 1..Len(mTags)}

ScalarTagAsList(frontmatter) ==
    Dict([k \in DOMAIN frontmatter.map |->
            IF k = "tags" THEN Lst(<<frontmatter.map[k].s>>) ELSE frontmatter.map[k]])

\* C3: with the property filter satisfied and a non-empty tag filter, the
\* result is membership over the normalized tags: all filter tags under
\* match_all, at least one otherwise; a scalar string tag value s gives the
\* same result as the list [s].
C3_TagStageIsMembershipOverNormalizedTags ==
    (Matched /\ mFm.kind = "dict" /\ PropertiesSatisfied(mFm, mProps) /\ mTags # <<>>) =>
        /\ (mOut = "True") =
              IF mAll THEN FilterTagSet \subseteq NormalizedTagSet(mFm)
                      ELSE FilterTagSet \cap NormalizedTagSet(mFm) # {}
        /\ ("tags" \in DOMAIN mFm.map /\ mFm.map["tags"].kind = "str") =>
              mOut = matches_criteria(ScalarTagAsList(mFm), mProps, mTags, mAll)

C3_Witness_ScalarTagMatched ==
    /\ mOut = "True" /\ mAll /\ mTags # <<>> /\ mFm.kind = "dict"
    /\ "tags" \in DOMAIN mFm.map /\ mFm.map["tags"].kind = "str"
    /\ "context" \in DOMAIN mProps

WithProperty(properties, key, value) ==
    [k \in DOMAIN properties \cup {key} |-> IF k = key THEN value ELSE properties[k]]

RemoveAt(seq, i) == SubSeq(seq, 1, i - 1) \o SubSeq(seq, i + 1, Len(seq))

\* Adding a requirement on a new key never turns a non-match into a match.
AddingPropertyNeverGainsMatch ==
    (mOut = "False" /\ mFm.kind = "dict") =>
        \A key \in PropKeys \ DOMAIN mProps : \A value \in PropValues[key] :
            matches_criteria(mFm, WithProperty(mProps, key, value), mTags, mAll) # "True"

\* Under match-all, adding a tag never turns a non-match into a match.
AddingTagUnderAllNeverGainsMatch ==
    (mOut = "False" /\ mFm.kind = "dict" /\ mAll) =>
        \A tag \in TagNames :
            matches_criteria(mFm, mProps, Append(mTags, tag), mAll) # "True"

\* Under any-tag mode, removing a tag never turns a non-match into a match
\* and adding a tag never turns a match into a non-match, for tag filters of
\* at least MinLeft tags after the removal (before the addition).
AnyModeInverse(MinLeft) ==
    /\ (mOut = "False" /\ mFm.kind = "dict" /\ ~mAll /\ Len(mTags) > MinLeft) =>
          \A i \in 1..Len(mTags) :
              matches_criteria(mFm, mProps, RemoveAt(mTags, i), mAll) # "True"
    /\ (mOut = "True" /\ mFm.kind = "dict" /\ ~mAll /\ Len(mTags) >= MinLeft) =>
          \A tag \in TagNames :
              matches_criteria(mFm, mProps, Append(mTags, tag), mAll) # "False"

\* C9 as stated: matches_criteria is monotonic in its filters; adding a
\* property requirement or (under match-all) a tag never turns false into
\* true, and under any-tag mode removing a tag never turns false into true
\* (adding a tag never turns a match into a non-match), for every tag filter.
C9_MonotonicInFilters ==
    /\ AddingPropertyNeverGainsMatch
    /\ AddingTagUnderAllNeverGainsMatch
    /\ AnyModeInverse(0)

\* C9 amended: the any-tag inverse holds only while the tag filter stays
\* non-empty, because an empty tag filter constrains nothing.
C9_MonotonicWhileTagFilterNonEmpty ==
    /\ AddingPropertyNeverGainsMatch
    /\ AddingTagUnderAllNeverGainsMatch
    /\ AnyModeInverse(1)

C9_Witness_RemovalLosesMatch ==
    /\ mOut = "True" /\ mFm.kind = "dict" /\ ~mAll /\ Len(mTags) >= 2
    /\ \E i \in 1..Len(mTags) :
          matches_criteria(mFm, mProps, RemoveAt(mTags, i), mAll) = "False"
(***************************************************************************)
(* concatenate_files (obsidian_utils.py 148-171).  A file is a record of   *)
(* its path and its content; strings are sequences of characters.          *)
(***************************************************************************)
SepWidth == 80

separator == [i \in 1..SepWidth |-> "="]

NoMatchingFiles ==
    <<"N", "o", " ", "m", "a", "t", "c", "h", "i", "n", "g", " ",
      "f", "i", "l", "e", "s", " ", "f", "o", "u", "n", "d", ".">>

Cwd == <<"/", "w", "/">>

\* str(file_path.resolve()): a relative path is made absolute.
resolve(file_path) == IF file_path[1] = "/" THEN file_path ELSE Cwd \o file_path

RECURSIVE join(_, _)
join(sep, parts) ==
    IF parts = <<>> THEN <<>>
    ELSE IF Len(parts) = 1 THEN parts[1]
    ELSE parts[1] \o sep \o join(sep, Tail(parts))

RECURSIVE result_parts(_)
result_parts(files) ==
    IF files = <<>> THEN <<>>
    ELSE <<separator, resolve(files[1].path), separator, files[1].content, <<>> >>
            \o result_parts(Tail(files))

RECURSIVE without_repeats(_)
without_repeats(files) ==
    IF files = <<>> THEN <<>>
    ELSE LET front == without_repeats(SubSeq(files, 1, Len(files) - 1))
             final == files[Len(files)]
         IN  IF \E i \in 1..Len(front) : front[i] = final THEN front
             ELSE Append(front, final)

concatenate_files_deduplicated(files) ==
    IF files = <<>> THEN NoMatchingFiles
    ELSE join(<<"\n">>, result_parts(without_repeats(files)))

concatenate_files(files) ==
    IF files = <<>> THEN NoMatchingFiles
    ELSE join(<<"\n">>, result_parts(files))

MaxFiles == 3

ConcatPaths == {<<"a">>, <<"/", "b">>}

ConcatContents == {<<>>, <<"x">>, <<"x", "\n">>, <<"=", "\n", "\n">>}

ConcatEntries == [path : ConcatPaths, content : ConcatContents]

ConcatInit ==
    /\ ExtractIdle /\ MatchIdle /\ ScanIdle /\ EntryIdle
    /\ cFiles \in UNION {[1..n -> ConcatEntries] : n \in 0..MaxFiles}
    /\ cOut = <<>>

Concatenate ==
    /\ cOut = <<>>
    /\ cOut' = <<concatenate_files(cFiles)>>
    /\ UNCHANGED cFiles
    /\ UNCHANGED <<extractVars, matchVars, scanVars, entryVars>>

SpecConcat == ConcatInit /\ [][Concatenate]_vars

(***************************************************************************)
(* Properties of concatenate_files, checked under SpecConcat.              *)
(***************************************************************************)
Line(chars) == chars \o <<"\n">>

\* One section: separator line, resolved path, separator line, content,
\* and the newline that precedes the blank line.
Section(file) ==
    Line([i \in 1..80 |-> "="]) \o Line(resolve(file.path))
        \o Line([i \in 1..80 |-> "="]) \o Line(file.content)

RECURSIVE SectionStart(_, _)
SectionStart(files, i) ==
    IF i = 1 THEN 0 ELSE SectionStart(files, i - 1) + Len(Section(files[i - 1])) + 1

\* C7: the empty list gives the sentinel; otherwise the output consists of
\* one section per entry, at the position the input order gives it, with
\* nothing reordered or dropped, sections separated by a single newline.
C7_OneSectionPerEntryInInputOrder ==
    cOut # <<>> =>
        IF cFiles = <<>> THEN cOut[1] = NoMatchingFiles
        ELSE LET out == cOut[1]  n == Len(cFiles)
             IN  /\ Len(out) = SectionStart(cFiles, n) + Len(Section(cFiles[n]))
                 /\ \A i \in 1..n :
                       LET from == SectionStart(cFiles, i)
                       IN  /\ SubSeq(out, from + 1, from + Len(Section(cFiles[i])))
                                = Section(cFiles[i])
                           /\ i > 1 => out[from] = "\n"

C7_Witness_RepeatedEntryKeptTwice ==
    /\ cOut # <<>> /\ Len(cFiles) = 3
    /\ cFiles[1] = cFiles[3] /\ cFiles[1] # cFiles[2]
    /\ cFiles[1].content = <<"x", "\n">>
(***************************************************************************)
(* find_matching_files (obsidian_utils.py 107-145).  The tree under the    *)
(* root maps each name matching *.md to what is there: nothing, a          *)
(* directory, or a regular file with its content, what yaml.safe_load      *)
(* gives for its header, and its st_mtime.  rglob is the order in which    *)
(* vault_path.rglob yields the entries; gone are the files removed by      *)
(* another process after they were read and before the sort.               *)
(***************************************************************************)
Absent == [kind |-> "absent", readable |-> FALSE, content |-> <<>>,
           yaml |-> NonDict("none"), st_mtime |-> 0]

Directory == [Absent EXCEPT !.kind = "dir"]

Unreadable == [Absent EXCEPT !.kind = "file", !.st_mtime = 1]

NoResult == [raised |-> "", matching_files |-> <<>>, warnings |-> <<>>]

\* Lines 137-138: what the verdict of matches_criteria does to the result.
collect(acc, md_file, content, matches) ==
    IF matches = "AttributeError"
    THEN [acc EXCEPT !.raised = "AttributeError"]
    ELSE IF matches = "True"
    THEN [acc EXCEPT !.matching_files = Append(@, [path |-> md_file, content |-> content])]
    ELSE acc

\* Lines 131-138: read the file, extract its frontmatter, match it.
read_and_match(acc, md_file, file, properties, tags, match_all_tags) ==
    IF ~file.readable
    THEN [acc EXCEPT !.warnings = Append(@, md_file)]
    ELSE collect(acc, md_file, file.content,
                 matches_criteria(extract_frontmatter(file.content, file.yaml).frontmatter,
                                  properties, tags, match_all_tags))

\* The body of the for loop, for one md_file; nothing runs after a raise.
visit(acc, md_file, tree, properties, tags, match_all_tags) ==
    IF acc.raised # "" THEN acc
    ELSE IF tree[md_file].kind # "file" THEN acc
    ELSE read_and_match(acc, md_file, tree[md_file], properties, tags, match_all_tags)

RECURSIVE scan(_, _, _, _, _, _)
scan(acc, rglob, tree, properties, tags, match_all_tags) ==
    IF rglob = <<>> THEN acc
    ELSE scan(visit(acc, Head(rglob), tree, properties, tags, match_all_tags),
              Tail(rglob), tree, properties, tags, match_all_tags)

\* list.sort(key=...) is stable: an element goes after those not above it.
insert(sorted, file, tree) ==
    LET k == Cardinality({i \in 1..Len(sorted) :
                tree[sorted[i].path].st_mtime <= tree[file.path].st_mtime})
    IN  SubSeq(sorted, 1, k) \o <<file>> \o SubSeq(sorted, k + 1, Len(sorted))

RECURSIVE sort_by_mtime(_, _)
sort_by_mtime(files, tree) ==
    IF files = <<>> THEN <<>>
    ELSE insert(sort_by_mtime(SubSeq(files, 1, Len(files) - 1), tree),
                files[Len(files)], tree)

\* Line 144: the sort calls stat() on every collected file.
sort_and_return(looped, tree, gone) ==
    IF looped.raised # "" THEN [looped EXCEPT !.matching_files = <<>>]
    ELSE IF \E i \in 1..Len(looped.matching_files) :
                looped.matching_files[i].path \in gone
    THEN [looped EXCEPT !.raised = "FileNotFoundError", !.matching_files = <<>>]
    ELSE [looped EXCEPT !.matching_files = sort_by_mtime(@, tree)]

find_matching_files(tree, properties, tags, match_all_tags, rglob, gone) ==
    sort_and_return(scan(NoResult, rglob, tree, properties, tags, match_all_tags),
                    tree, gone)

(***************************************************************************)
(* Inputs of the scanner.                                                  *)
(***************************************************************************)
MaxTime == 2

MaxGone == 1

\* The paths rglob can yield: the root /v resolved, and a name matching *.md.
Names == {<<"/", "v", "/", "a">>, <<"/", "v", "/", "b">>, <<"/", "v", "/", "c">>}

Docs ==
    { <<"x", "\n">>,
      <<"-", "-", "-", "\n", "w", "\n", "-", "-", "-", "\n", "x">>,
      <<"-", "-", "-", "\n", "u", "\n", "-", "-", "-", "\n", "\n", "x">>,
      <<"-", "-", "-", "\n", "l", "\n", "-", "-", "-", "\n", "x">> }

Readable ==
    {[kind |-> "file", readable |-> TRUE, content |-> doc, yaml |-> y, st_mtime |-> t] :
        doc \in Docs, y \in {NonDict("none")} \cup UNION {safe_load(frontmatter_text(d)) : d \in Docs},
        t \in 1..MaxTime}

FileStates ==
    {Absent, Directory, Unreadable}
        \cup {f \in Readable : f.yaml \in safe_load(frontmatter_text(f.content))}

Trees == [Names -> FileStates]

Entries(tree) == {n \in Names : tree[n].kind # "absent"}

Orders(S) ==
    {o \in [1..Cardinality(S) -> S] : \A i, j \in DOMAIN o : i # j => o[i] # o[j]}

Criteria ==
    [properties : {EmptyDict, [context |-> Str("work")]},
     tags : {<<>>, <<"urgent">>},
     match_all_tags : BOOLEAN]

ScanInit ==
    /\ ExtractIdle /\ MatchIdle /\ ConcatIdle /\ EntryIdle
    /\ vault \in Trees
    /\ sIn = <<>> /\ sOut = <<>>

Scan ==
    /\ sOut = <<>>
    /\ \E c \in Criteria, rglob \in Orders(Entries(vault)),
          gone \in {g \in SUBSET {n \in Names : vault[n].kind = "file"} :
                        Cardinality(g) <= MaxGone} :
          /\ sIn' = <<[properties |-> c.properties, tags |-> c.tags,
                       match_all_tags |-> c.match_all_tags,
                       rglob |-> rglob, gone |-> gone]>>
          /\ sOut' = <<find_matching_files(vault, c.properties, c.tags,
                                           c.match_all_tags, rglob, gone)>>
    /\ UNCHANGED vault
    /\ UNCHANGED <<extractVars, matchVars, concatVars, entryVars>>

SpecScan == ScanInit /\ [][Scan]_vars
(***************************************************************************)
(* Properties of find_matching_files, checked under SpecScan.              *)
(***************************************************************************)
Scanned == sOut # <<>>

Returned == Scanned /\ sOut[1].raised = ""

IsReadableFile(n) == vault[n].kind = "file" /\ vault[n].readable

\* What the matcher says about the metadata extracted from file n.
Verdict(n) ==
    matches_criteria(extract_frontmatter(vault[n].content, vault[n].yaml).frontmatter,
                     sIn[1].properties, sIn[1].tags, sIn[1].match_all_tags)

Occurrences(n) ==
    Cardinality({i \in 1..Len(sOut[1].matching_files) : sOut[1].matching_files[i].path = n})

Warned(n) == \E i \in 1..Len(sOut[1].warnings) : sOut[1].warnings[i] = n

\* A step of the scan that concerns file n alone has failed.
FailedFor(n) ==
    \/ vault[n].kind = "file" /\ ~vault[n].readable
    \/ IsReadableFile(n) /\ Verdict(n) = "AttributeError"
    \/ n \in sIn[1].gone

\* C1: for every vault and filter find_matching_files returns a list; a
\* failure local to one file (read, decode, any other per-file step, the
\* timestamp lookup of the sort) only excludes that file and never aborts
\* the scan, and every other readable file that passes the matcher is
\* returned.
C1_PerFileFailureNeverAbortsScan ==
    Scanned =>
        /\ sOut[1].raised = ""
        /\ \A n \in Names :
              /\ FailedFor(n) => Occurrences(n) = 0
              /\ (vault[n].kind = "file" /\ ~vault[n].readable) => Warned(n)
              /\ (IsReadableFile(n) /\ ~FailedFor(n) /\ Verdict(n) = "True") =>
                    Occurrences(n) = 1

AllReadable == \A n \in Names : vault[n].kind = "file" => vault[n].readable

\* C4: when every file is readable (and stays in place), the returned list
\* holds each regular *.md file exactly once if its metadata passes
\* matches_criteria and not at all otherwise, with its full content, in
\* ascending st_mtime order; with empty filters every file is returned.
C4_ExactlyThePassingFilesInMtimeOrder ==
    (Scanned /\ AllReadable /\ sIn[1].gone = {}) =>
        LET files == sOut[1].matching_files
        IN  /\ sOut[1].raised = ""
            /\ \A n \in Names :
                  Occurrences(n) = IF vault[n].kind = "file" /\ Verdict(n) = "True"
                                   THEN 1 ELSE 0
            /\ \A i \in 1..Len(files) : files[i].content = vault[files[i].path].content
            /\ \A i, j \in 1..Len(files) :
                  i < j => vault[files[i].path].st_mtime <= vault[files[j].path].st_mtime
            /\ (sIn[1].properties = EmptyDict /\ sIn[1].tags = <<>>) =>
                  \A n \in Names : vault[n].kind = "file" => Occurrences(n) = 1
(***************************************************************************)
(* The configuration source and the roots it can name.  /v is the vault    *)
(* directory, /f is a regular file, /n does not exist.                     *)
(***************************************************************************)
Roots == {"/v", "/f", "/n"}

Filesystem == [root \in Roots |->
                 IF root = "/v" THEN "dir" ELSE IF root = "/f" THEN "file" ELSE "missing"]

exists(vault_path) == Filesystem[vault_path] # "missing"

is_dir(vault_path) == Filesystem[vault_path] = "dir"

DefaultContext == [properties |-> [context |-> Str("work")], tags |-> <<>>]

\* What config.yaml can hold: nothing at all (no file), text that is not
\* YAML, an empty document, or a dict with or without vault_path.
ConfigFiles ==
    { [NoConfig EXCEPT !.kind = "missing"], [NoConfig EXCEPT !.kind = "malformed"],
      NoConfig, [NoConfig EXCEPT !.kind = "dict"] }
        \cup {[kind |-> "dict", vault_path |-> root, default_context |-> <<DefaultContext>>] :
                root \in Roots}

\* obsidian_utils.load_config (obsidian_utils.py 15-39)
read_config(file) ==
    IF file.kind = "missing" THEN [raised |-> "FileNotFoundError", value |-> NoConfig]
    ELSE IF file.kind = "malformed" THEN [raised |-> "YAMLError", value |-> NoConfig]
    ELSE [raised |-> "", value |-> file]

\* load_config of mcp-construe.py (22-34): the value, the new _config, and
\* whether the file was read.
load_config_uncached(cache, file) ==
    LET loaded_config == read_config(file)
    IN  [raised |-> loaded_config.raised, value |-> loaded_config.value,
         cache |-> loaded_config.value, read |-> TRUE]

load_config(cache, file) ==
    IF cache # NoConfig
    THEN [raised |-> "", value |-> cache, cache |-> cache, read |-> FALSE]
    ELSE LET loaded_config == read_config(file)
         IN  [raised |-> loaded_config.raised, value |-> loaded_config.value,
              cache |-> IF loaded_config.raised = "" THEN loaded_config.value ELSE cache,
              read |-> TRUE]

\* config['vault_path']
vault_path_error(config) ==
    IF config.kind = "none" THEN "TypeError"
    ELSE IF config.vault_path = "" THEN "KeyError"
    ELSE ""

\* rglob under a root: the entries of the vault directory; nothing under a
\* path that is not a directory.
tree_of(vault_path) == IF is_dir(vault_path) THEN vault ELSE [n \in Names |-> Absent]

Failure(op, error, root) ==
    [NoOperation EXCEPT !.op = op, !.kind = "error", !.error = error, !.root = root]

\* The scan and the aggregation the two fetch tools and main end with; a
\* dry run of main lists the paths instead.
output(op, vault_path, dry_run, found) ==
    IF found.raised # ""
    THEN [Failure(op, found.raised, vault_path) EXCEPT !.scanned = TRUE]
    ELSE IF dry_run
    THEN [NoOperation EXCEPT !.op = op, !.kind = "listing", !.root = vault_path,
                             !.scanned = TRUE,
                             !.paths = [i \in 1..Len(found.matching_files) |->
                                           found.matching_files[i].path]]
    ELSE [NoOperation EXCEPT !.op = op, !.kind = "text", !.root = vault_path,
                             !.scanned = TRUE,
                             !.out = concatenate_files(found.matching_files)]

scan_and_concatenate(op, vault_path, properties, tags, match_all_tags, dry_run, rglob, gone) ==
    output(op, vault_path, dry_run,
           find_matching_files(tree_of(vault_path), properties, tags, match_all_tags,
                               rglob, gone))

\* fetch_context and fetch_matching_files (mcp-construe.py 52-70, 94-111)
\* after load_config: validate the root, then scan.
fetch(op, config, properties, tags, match_all_tags, rglob, gone) ==
    IF config.raised # "" THEN Failure(op, config.raised, "")
    ELSE IF vault_path_error(config.value) # ""
    THEN Failure(op, vault_path_error(config.value), "")
    ELSE LET vault_path == config.value.vault_path
         IN  IF ~exists(vault_path)
             THEN Failure(op, "Vault path does not exist", vault_path)
             ELSE IF ~is_dir(vault_path)
             THEN Failure(op, "Vault path is not a directory", vault_path)
             ELSE scan_and_concatenate(op, vault_path, properties, tags,
                                       match_all_tags, FALSE, rglob, gone)

\* The outcome of a host call, with what it saw of the configuration.
Observed(result, config) ==
    [result EXCEPT !.config = config.value, !.read = config.read,
                   !.stale = ~config.read /\ configFile # config.value]

MaxCalls == 3

RECURSIVE Keep(_, _)
Keep(seq, S) ==
    IF seq = <<>> THEN <<>>
    ELSE IF Head(seq) \in S THEN <<Head(seq)>> \o Keep(Tail(seq), S)
    ELSE Keep(Tail(seq), S)

\* The entry surfaces are explored with two directory orders.
Listings(vault_path) ==
    {Keep(order, Entries(tree_of(vault_path))) :
        order \in {<< <<"/", "v", "/", "a">>, <<"/", "v", "/", "b">>, <<"/", "v", "/", "c">> >>,
                   << <<"/", "v", "/", "c">>, <<"/", "v", "/", "b">>, <<"/", "v", "/", "a">> >>}}

Removals(vault_path) ==
    {g \in SUBSET {n \in Names : tree_of(vault_path)[n].kind = "file"} :
        Cardinality(g) <= MaxGone}

HostCall(result, config) ==
    /\ calls < MaxCalls
    /\ calls' = calls + 1
    /\ _config' = config.cache
    /\ reads' = IF config.read THEN reads + 1 ELSE reads
    /\ last' = Observed(result, config)
    /\ UNCHANGED <<configFile, vault>>
    /\ UNCHANGED <<extractVars, matchVars, concatVars, sIn, sOut>>

RootOf(config) ==
    IF config.raised = "" /\ vault_path_error(config.value) = ""
    THEN config.value.vault_path ELSE "/n"

fetch_context ==
    LET config == load_config(_config, configFile)
    IN  \E context_type \in {"work", "personal"},
           rglob \in Listings(RootOf(config)), gone \in Removals(RootOf(config)) :
            HostCall(fetch("fetch_context", config, [context |-> Str(context_type)],
                           <<>>, FALSE, rglob, gone), config)

\* properties or {} and tags or []: an argument left out is <<>>, one
\* given is <<value>>.
or_default(argument, default) == IF argument = <<>> THEN default ELSE argument[1]

fetch_matching_files ==
    LET config == load_config(_config, configFile)
    IN  \E properties \in {<<>>, <<[context |-> Str("work")]>>},
           tags \in {<<>>, << <<"urgent">> >>}, match_all_tags \in BOOLEAN,
           rglob \in Listings(RootOf(config)), gone \in Removals(RootOf(config)) :
            HostCall(fetch("fetch_matching_files", config,
                           or_default(properties, EmptyDict), or_default(tags, <<>>),
                           match_all_tags, rglob, gone), config)

\* get_vault_info of both files (mcp-construe.py 115-133, obsidian_utils.py
\* 174-194): no scan; the count is the number of rglob entries.
vault_info(config) ==
    IF config.raised # "" THEN Failure("get_vault_info", config.raised, "")
    ELSE IF vault_path_error(config.value) # ""
    THEN Failure("get_vault_info", vault_path_error(config.value), "")
    ELSE LET vault_path == config.value.vault_path
         IN  IF ~exists(vault_path)
             THEN Failure("get_vault_info", "Vault path does not exist", vault_path)
             ELSE [NoOperation EXCEPT !.op = "get_vault_info", !.kind = "info",
                        !.root = vault_path,
                        !.count = Cardinality(Entries(tree_of(vault_path)))]

get_vault_info ==
    LET config == load_config(_config, configFile)
    IN  HostCall(vault_info(config), config)

\* main of obsidian_utils.py (243-299): its own process, so it loads the
\* file itself and never touches _config; as its outcome depends neither
\* on the server nor on an earlier run, it is explored as the first
\* operation.  vault_arg is the --vault argument ("" when left out);
\* property holds the parsed key=value arguments.
main_criteria(config, use_default, property, tag) ==
    IF use_default
    THEN LET default_context == or_default(config.default_context,
                                           [properties |-> EmptyDict, tags |-> <<>>])
         IN  [properties |-> default_context.properties, tags |-> default_context.tags]
    ELSE [properties |-> property, tags |-> tag]

\* return 0 after the output, return 1 from the except clause
exit_code(result) == [result EXCEPT !.exit = IF result.kind = "error" THEN 1 ELSE 0]

\* Lines 255-295, for the root the arguments and the configuration give.
main_scan(config, vault_path, info, use_default, criteria, all_tags, dry_run, rglob, gone) ==
    IF ~exists(vault_path)
    THEN Failure("main", "Vault path does not exist", vault_path)
    ELSE IF info
    THEN [NoOperation EXCEPT !.op = "main", !.kind = "info", !.root = vault_path,
                             !.count = Cardinality(Entries(tree_of(vault_path)))]
    ELSE IF config.kind = "none" /\ use_default
    THEN Failure("main", "AttributeError", vault_path)
    ELSE scan_and_concatenate("main", vault_path, criteria.properties, criteria.tags,
                              all_tags, dry_run, rglob, gone)

main_result(config, vault_arg, info, use_default, property, tag, all_tags, dry_run, rglob, gone) ==
    IF config.raised # "" THEN Failure("main", config.raised, "")
    ELSE IF vault_arg = "" /\ vault_path_error(config.value) # ""
    THEN Failure("main", vault_path_error(config.value), "")
    ELSE main_scan(config.value,
                   IF vault_arg # "" THEN vault_arg ELSE config.value.vault_path,
                   info, use_default,
                   main_criteria(config.value, use_default, property, tag),
                   all_tags, dry_run, rglob, gone)

MainRoot(vault_arg, config) == IF vault_arg # "" THEN vault_arg ELSE RootOf(config)

main ==
    /\ last = NoOperation
    /\ \E vault_arg \in Roots \cup {""}, info \in BOOLEAN, use_default \in BOOLEAN,
          property \in {EmptyDict, [context |-> Str("work")]},
          tag \in {<<>>, <<"urgent">>}, all_tags \in BOOLEAN, dry_run \in BOOLEAN :
          \E rglob \in Listings(MainRoot(vault_arg, read_config(configFile))),
             gone \in Removals(MainRoot(vault_arg, read_config(configFile))) :
                last' = exit_code(main_result(read_config(configFile), vault_arg, info,
                                              use_default, property, tag, all_tags,
                                              dry_run, rglob, gone))
    /\ UNCHANGED <<_config, configFile, reads, calls, vault>>
    /\ UNCHANGED <<extractVars, matchVars, concatVars, sIn, sOut>>

\* Somebody edits, creates or removes config.yaml.
EditConfig ==
    /\ configFile' \in ConfigFiles \ {configFile}
    /\ UNCHANGED <<_config, reads, calls, last, vault>>
    /\ UNCHANGED <<extractVars, matchVars, concatVars, sIn, sOut>>

\* The vault of the documented scenario, and one whose c.md has a header
\* that is a YAML list.
ScenarioVault(third) ==
    [n \in Names |->
        IF n[4] = "a" THEN [kind |-> "file", readable |-> TRUE, content |-> <<"x", "\n">>,
                            yaml |-> NonDict("none"), st_mtime |-> 1]
        ELSE IF n[4] = "b"
        THEN [kind |-> "file", readable |-> TRUE,
              content |-> <<"-", "-", "-", "\n", "w", "\n", "-", "-", "-", "\n", "x">>,
              yaml |-> Dict([context |-> Str("work")]), st_mtime |-> 2]
        ELSE third]

EntryInit ==
    /\ ExtractIdle /\ MatchIdle /\ ConcatIdle
    /\ sIn = <<>> /\ sOut = <<>>
    /\ vault \in {ScenarioVault(f) : f \in {x \in FileStates :
                        /\ x.st_mtime = 2
                        /\ (x.yaml.kind = "list" \/ "tags" \in DOMAIN x.yaml.map)}}
    /\ _config = NoConfig
    /\ configFile \in ConfigFiles
    /\ reads = 0 /\ calls = 0 /\ last = NoOperation

EntryNext ==
    \/ fetch_context
    \/ fetch_matching_files
    \/ get_vault_info
    \/ main
    \/ EditConfig

SpecEntry == EntryInit /\ [][EntryNext]_vars
(***************************************************************************)
(* Properties of the entry surfaces, checked under SpecEntry.              *)
(***************************************************************************)
\* The latest operation was one that scans, for a root it had resolved.
ScanRequested ==
    /\ last.op \in {"fetch_context", "fetch_matching_files", "main"}
    /\ last.kind # "info"
    /\ last.root # ""

\* C8: in fetch_context, fetch_matching_files and main, a resolved root
\* that does not exist or is not a directory is detected before scanning:
\* find_matching_files is not invoked on it and the operation ends with an
\* error (an error string, or a printed error and exit code 1 for main).
C8_InvalidRootIsRejectedBeforeScanning ==
    (ScanRequested /\ ~is_dir(last.root)) =>
        /\ ~last.scanned
        /\ last.kind = "error"
        /\ last.op = "main" => last.exit = 1

\* C10 as stated: the cached configuration is populated at most once, by
\* the first call, and never refreshed: no call after the first reads the
\* configuration source, so no later call observes a changed file.
C10_OnlyFirstCallReadsSource ==
    /\ reads <= 1
    /\ (calls >= 2 /\ last.op # "main") => ~last.read

\* C10 amended: once a call has loaded a configuration that is not None,
\* _config never changes again and no later call reads the source; every
\* later call works with the cached value.
C10_PopulatedCacheIsNeverRefreshed ==
    [][_config # NoConfig =>
          /\ _config' = _config
          /\ reads' = reads
          /\ calls' > calls => (last'.config = _config /\ ~last'.read)]_vars

C10_Witness_StaleConfigurationServed ==
    /\ calls >= 2 /\ last.op = "fetch_context" /\ last.stale
    /\ last.kind = "text" /\ last.root = "/v" /\ _config.vault_path = "/v"
    /\ configFile.kind = "dict" /\ configFile.vault_path = "/n"
====
